---------------------------- MODULE Spec2Model ----------------------------
(***************************************************************************)
(* A model of fcheck (Project4.c), the consistency checker for xv6 file    *)
(* system images.  The image is the input; the state is the position of    *)
(* main() in its sequence of checks, the scratch tables of the checks and  *)
(* what the process has written to stderr and how it ended.                *)
(*                                                                         *)
(* An image is kept as its superblock, its inode table, its bitmap bytes   *)
(* and its data blocks.  A data block is kept as its first DPB directory   *)
(* entries (16 bytes each: a 16-bit inode number and a 14-byte name); the  *)
(* uint view of the same bytes, which the indirect-block readers use, is   *)
(* computed from them by Word.  NDIRECT and DPB are scaled down: the slots *)
(* and entries above them are zero in every image of the family, and every *)
(* loop of the program skips a zero slot or entry.                         *)
(***************************************************************************)
EXTENDS Integers, Sequences, FiniteSets, TLC

VARIABLES img, lay, pc, idx, used, inmap, stack, uidx, midx, smashed, err, outcome

vars == <<img, lay, pc, idx, used, inmap, stack, uidx, midx, smashed, err, outcome>>

-----------------------------------------------------------------------------
(* Program constants (fs.h, stat.h of xv6, included by Project4.c).        *)

T_DIR == 1
T_FILE == 2
T_DEV == 3

BSIZE == 512
\* inodes per block: BSIZE / sizeof(struct dinode), a dinode being 64 bytes
IPB == 8
\* bitmap bits per block: BSIZE * 8
BPB == 4096
\* bytes of one struct dinode
DINODE_SZ == 64

\* direct slots of an inode (12 in fs.h), scaled
NDIRECT == 2
\* directory entries per block (32 in fs.h), scaled
DPB == 2
\* uints per block: a struct dirent is as wide as four uints
NINDIRECT == 4 * DPB

\* 2^32 bytes in blocks of BSIZE bytes
WrapBlocks == 8388608
USHORT == 65536

-----------------------------------------------------------------------------
(* Bounds of the image family.                                             *)

\* inodes of the images of the family (superblock field ninodes)
NINODES == 4
\* data blocks of the images of the family
NDATA == 7
\* superblock values of the layout specification: 1..MaxSb and the values
\* around the multiples of BPB and the 32-bit limit
MaxSb == 17

-----------------------------------------------------------------------------
(* Layout: init_img.                                                       *)

init_img_ceil(sb) ==
  LET nib == (sb.ninodes + IPB - 1) \div IPB
      nbb == (sb.size + BPB - 1) \div BPB
  IN [ninodeblks |-> nib, nbitmapblks |-> nbb,
      bitmapblk |-> 2 + (nib % WrapBlocks),
      firstblk |-> nib + nbb + 2]

\* lines 404-409: the block counts, the block at which the bitmap region
\* starts and firstblk.  ninodeblks * BLK_SZ is a 32-bit product (uint * int)
\* and wraps at 2^32 bytes, which is WrapBlocks blocks; the sums cannot wrap
init_img(sb) ==
  LET nib == (sb.ninodes \div IPB) + 1
      nbb == (sb.size \div BPB) + 1
  IN [ninodeblks |-> nib, nbitmapblks |-> nbb,
      bitmapblk |-> 2 + (nib % WrapBlocks),
      firstblk |-> nib + nbb + 2]

-----------------------------------------------------------------------------
(* The image: views of its bytes.                                          *)

ZeroEnt == [inum |-> 0, name |-> ""]

\* bytes 0 and 1 of a name, as the upper half of the uint that holds the
\* entry's inode number: '.' is 46, 'a' is 97
NameHi(name) ==
  CASE name = "" -> 0
    [] name = "." -> 46
    [] name = ".." -> 46 + 46 * 256
    [] OTHER -> 97

\* the name a dirent's bytes spell, as strcmp sees it: hi holds bytes 0 and
\* 1, b2 is byte 2
NameOf(hi, b2) ==
  LET b0 == hi % 256
      b1 == hi \div 256
  IN IF b0 = 0 THEN ""
     ELSE IF b0 = 46 /\ b1 = 0 THEN "."
     ELSE IF b0 = 46 /\ b1 = 46 /\ b2 = 0 THEN ".."
     ELSE "a"

\* the k-th uint of block a, ((uint *)(img->map + a * BLK_SZ))[k]: block 1 is
\* the superblock {size, nblocks, ninodes}, a data block holds its entries
Word(im, a, k) ==
  IF a = 1
    THEN (CASE k = 0 -> im.size [] k = 1 -> im.nblocks
            [] k = 2 -> im.ninodes [] OTHER -> 0)
    ELSE IF a \in DOMAIN im.blocks /\ k % 4 = 0 /\ k \div 4 < DPB
      THEN im.blocks[a][k \div 4].inum + NameHi(im.blocks[a][k \div 4].name) * USHORT
      ELSE 0

\* the j-th struct dirent of block a, (struct dirent *)(img->map + a * BLK_SZ) + j
Dirent(im, a, j) ==
  [inum |-> Word(im, a, 4 * j) % USHORT,
   name |-> NameOf(Word(im, a, 4 * j) \div USHORT, Word(im, a, 4 * j + 1) % 256)]

\* in->addrs[i], i = NDIRECT being the indirect slot
Addr(in, i) == in.addrs[i]

RECURSIVE Pow2(_)
Pow2(n) == IF n = 0 THEN 1 ELSE 2 * Pow2(n - 1)

\* CHK_BIT(bmp, addr), line 15: bit addr % 8 of byte addr / 8
CHK_BIT(bmp, addr) == (bmp[addr \div 8] \div Pow2(addr % 8)) % 2 = 1

\* the struct dinode at ((struct dinode *) img->inodeblks) + inum (line 327):
\* an inode of the table, a zero record of the slack of the last inode block,
\* or the bytes of the bitmap that follow the inode blocks (the bitmap of an
\* image of the family is zero from byte 2 on, where nlink and addrs lie)
Dinode(im, L, inum) ==
  IF inum < im.ninodes THEN im.inodes[inum]
  ELSE LET off == (inum - L.ninodeblks * IPB) * DINODE_SZ
           byte(b) == IF b \in DOMAIN im.bmp THEN im.bmp[b] ELSE 0
       IN [type |-> IF inum < L.ninodeblks * IPB THEN 0
                    ELSE byte(off) + 256 * byte(off + 1),
           nlink |-> 0, addrs |-> [s \in 0..NDIRECT |-> 0]]

-----------------------------------------------------------------------------
(* The family of images: three well-formed trees and the blank image, with *)
(* fields overwritten.                                                     *)

BaseFirst == init_img([size |-> NDATA, ninodes |-> NINODES]).firstblk
BaseSize == BaseFirst + NDATA

FreeInode == [type |-> 0, nlink |-> 0, addrs |-> [s \in 0..NDIRECT |-> 0]]

MkInode(type, nlink, a0, a1, ind) ==
  [type |-> type, nlink |-> nlink,
   addrs |-> [s \in 0..NDIRECT |->
                IF s = 0 THEN a0 ELSE IF s = 1 THEN a1
                ELSE IF s = NDIRECT THEN ind ELSE 0]]

MkBlock(e0, e1) ==
  [j \in 0..DPB-1 |-> IF j = 0 THEN e0 ELSE IF j = 1 THEN e1 ELSE ZeroEnt]

Ent(inum, name) == [inum |-> inum, name |-> name]

RECURSIVE BytesOf(_, _)
\* the bitmap byte whose bits are the members of S in 8b..8b+7
BytesOf(S, b) ==
  LET bit(k) == IF 8 * b + k \in S THEN Pow2(k) ELSE 0
      RECURSIVE sum(_)
      sum(k) == IF k = 8 THEN 0 ELSE bit(k) + sum(k + 1)
  IN sum(0)

MkBmp(S) == [b \in 0..((BaseSize - 1) \div 8) |-> BytesOf(S, b)]

\* root (inode 1) holds directory d, which holds file f; the file has an
\* indirect block unless zdir, and with zdir inode 0 is a directory that
\* holds nothing
Tree(d, f, zdir) ==
  LET F == BaseFirst
  IN [size |-> BaseSize, nblocks |-> NDATA, ninodes |-> NINODES,
      inodes |-> [i \in 0..NINODES-1 |->
         IF i = 1 THEN MkInode(T_DIR, 1, F, F + 1, 0)
         ELSE IF i = d THEN MkInode(T_DIR, 1, F + 2, F + 3, 0)
         ELSE IF i = f THEN MkInode(T_FILE, 1, F + 4, 0, IF zdir THEN 0 ELSE F + 5)
         ELSE IF i = 0 /\ zdir THEN MkInode(T_DIR, 1, F + 5, F + 6, 0)
         ELSE FreeInode],
      blocks |-> [a \in F..(BaseSize - 1) |->
         IF a = F THEN MkBlock(Ent(1, "."), Ent(1, ".."))
         ELSE IF a = F + 1 THEN MkBlock(Ent(d, "a"), ZeroEnt)
         ELSE IF a = F + 2 THEN MkBlock(Ent(d, "."), Ent(1, ".."))
         ELSE IF a = F + 3 THEN MkBlock(Ent(f, "a"), ZeroEnt)
         ELSE IF a = F + 5 /\ zdir THEN MkBlock(Ent(0, "."), Ent(1, ".."))
         ELSE IF a = F + 5 THEN MkBlock(Ent(F + 6, ""), ZeroEnt)
         ELSE MkBlock(ZeroEnt, ZeroEnt)],
      bmp |-> MkBmp(0..(F + 6))]

Blank ==
  [size |-> BaseSize, nblocks |-> NDATA, ninodes |-> NINODES,
   inodes |-> [i \in 0..NINODES-1 |-> FreeInode],
   blocks |-> [a \in BaseFirst..(BaseSize - 1) |-> MkBlock(ZeroEnt, ZeroEnt)],
   bmp |-> MkBmp(0..(BaseFirst - 1))]

Trees == {Tree(2, 3, FALSE), Tree(3, 2, FALSE), Tree(2, 3, TRUE)}

\* block addresses an overwritten slot may hold: none, the superblock, the
\* data blocks, and the first address past the image
AddrVals == {0, 1} \cup (BaseFirst..BaseSize)

EntVals ==
  {Ent(n, s) : n \in 0..NINODES, s \in {".", "..", "a"}}
    \cup {Ent(a, "") : a \in AddrVals}

Muts ==
  {[k |-> "none"], [k |-> "nblocks"]}
    \cup {[k |-> "type", i |-> i, v |-> v] : i \in 0..NINODES-1, v \in 0..4}
    \cup {[k |-> "nlink", i |-> i, v |-> v] : i \in 0..NINODES-1, v \in 0..2}
    \cup {[k |-> "addr", i |-> i, s |-> s, v |-> v] :
            i \in 0..NINODES-1, s \in 0..NDIRECT, v \in AddrVals}
    \cup {[k |-> "ent", a |-> a, j |-> j, v |-> v] :
            a \in BaseFirst..(BaseSize - 1), j \in 0..DPB-1, v \in EntVals}
    \cup {[k |-> "bit", a |-> a] : a \in 0..(BaseSize - 1)}

\* the overwrites of a field of the superblock, of an inode or of the bitmap
FieldMuts == {m \in Muts : m.k # "ent"}

\* the overwrites of an entry with an ordinarily named one
LinkMuts == {m \in Muts : m.k = "ent" /\ m.v.name = "a"}

Apply(im, m) ==
  CASE m.k = "none" -> im
    [] m.k = "nblocks" -> [im EXCEPT !.nblocks = NDATA - 1]
    [] m.k = "type" -> [im EXCEPT !.inodes[m.i].type = m.v]
    [] m.k = "nlink" -> [im EXCEPT !.inodes[m.i].nlink = m.v]
    [] m.k = "addr" -> [im EXCEPT !.inodes[m.i].addrs[m.s] = m.v]
    [] m.k = "ent" -> [im EXCEPT !.blocks[m.a][m.j] = m.v]
    [] m.k = "bit" ->
         [im EXCEPT !.bmp[m.a \div 8] =
            IF CHK_BIT(im.bmp, m.a) THEN @ - Pow2(m.a % 8) ELSE @ + Pow2(m.a % 8)]


-----------------------------------------------------------------------------
(* The diagnostics, as written to stderr, and their kinds.                 *)

OK == ""
MsgBadInode == "ERROR: bad inode."
MsgBadDirect == "ERROR: bad direct address in inode."
MsgBadIndirect == "ERROR: bad indirect address in inode."
MsgRoot == "ERROR: root directory does not exist."
MsgDir == "ERROR: directory not properly formatted."
MsgBmp == "ERROR: address used by inode but marked free in bitmap."
MsgBmp2 == "ERROR: bitmap marks block in use but it is not in use."
MsgDupDirect == "ERROR: direct address used more than once."
MsgDupIndirect == "ERROR: indirect address used more than once."
MsgNotFound == "ERROR: inode marked use but not found in a directory."
MsgFreeRef == "ERROR: inode referred to in directory but marked free."
MsgBadRef == "ERROR: bad reference count for file."
MsgDirTwice == "ERROR: directory appears more than once in file system."
\* written by the stack protector of a build that has one, before SIGABRT
MsgSmash == "*** stack smashing detected ***: terminated"

-----------------------------------------------------------------------------
(* The per-inode checks of main's loop.                                    *)

\* lines 38-48
validate_type(in) ==
  IF in.type \in {T_FILE, T_DIR, T_DEV} THEN OK ELSE MsgBadInode

\* lines 51-53
valid_addr(im, addr) == addr > 0 /\ addr < im.size

\* lines 56-65
check_direct(im, in) ==
  IF \E i \in 0..NDIRECT-1 : Addr(in, i) # 0 /\ ~valid_addr(im, Addr(in, i))
    THEN MsgBadDirect ELSE OK

\* lines 68-87
check_indirect(im, in) ==
  LET addr == Addr(in, NDIRECT)
  IN IF addr = 0 THEN OK
     ELSE IF ~valid_addr(im, addr) THEN MsgBadIndirect
     ELSE IF \E i \in 0..NINDIRECT-1 :
               Word(im, addr, i) # 0 /\ ~valid_addr(im, Word(im, addr, i))
       THEN MsgBadIndirect ELSE OK

RECURSIVE process_entries(_, _, _, _, _)
\* lines 90-108, from entry j on; st is [err, dot, ddot], err the diagnostic
\* of the exit(1) the scan ran into
process_entries(im, addr, inum, j, st) ==
  IF j = DPB \/ st.err # OK THEN st
  ELSE LET de == Dirent(im, addr, j)
       IN IF de.name = "."
            THEN process_entries(im, addr, inum, j + 1,
                   [st EXCEPT !.dot = TRUE,
                              !.err = IF de.inum # inum THEN MsgDir ELSE OK])
          ELSE IF de.name = ".."
            THEN process_entries(im, addr, inum, j + 1,
                   [st EXCEPT !.ddot = TRUE,
                              !.err = IF (inum # 1 /\ de.inum = inum)
                                         \/ (inum = 1 /\ de.inum # inum)
                                      THEN MsgRoot ELSE OK])
          ELSE process_entries(im, addr, inum, j + 1, st)

RECURSIVE validate_dir_from(_, _, _, _, _)
\* lines 113-121, from direct slot i on
validate_dir_from(im, in, inum, i, st) ==
  IF st.err # OK THEN st.err
  ELSE IF i = NDIRECT \/ (st.dot /\ st.ddot)
    THEN (IF ~st.dot \/ ~st.ddot THEN MsgDir ELSE OK)
  ELSE IF Addr(in, i) = 0 THEN validate_dir_from(im, in, inum, i + 1, st)
  ELSE validate_dir_from(im, in, inum, i + 1,
                         process_entries(im, Addr(in, i), inum, 0, st))

\* lines 111-122
validate_dir(im, in, inum) ==
  validate_dir_from(im, in, inum, 0, [err |-> OK, dot |-> FALSE, ddot |-> FALSE])

\* lines 125-127
marked_in_bmp(bmp, addr) == CHK_BIT(bmp, addr)

\* lines 130-140: chkd only skips an address the same inode has shown marked
chk_indirect(im, ind) ==
  IF \E j \in 0..NINDIRECT-1 :
       Word(im, ind, j) # 0 /\ ~marked_in_bmp(im.bmp, Word(im, ind, j))
    THEN MsgBmp ELSE OK

\* lines 143-160: the indirect block is read unless its address is zero or
\* was checked as a direct address of the same inode (line 149)
chk_bmp_addr(im, in) ==
  LET ind == Addr(in, NDIRECT)
  IN IF \E i \in 0..NDIRECT : Addr(in, i) # 0 /\ ~marked_in_bmp(im.bmp, Addr(in, i))
       THEN MsgBmp
     ELSE IF ind = 0 \/ (\E i \in 0..NDIRECT-1 : Addr(in, i) = ind) THEN OK
     ELSE chk_indirect(im, ind)

\* lines 452-467: the body of main's loop for inode i
main_body(im, i) ==
  LET in == im.inodes[i]
  IN IF in.type = 0 THEN OK
     ELSE IF validate_type(in) # OK THEN validate_type(in)
     ELSE IF check_direct(im, in) # OK THEN check_direct(im, in)
     ELSE IF check_indirect(im, in) # OK THEN check_indirect(im, in)
     ELSE IF i = 1 /\ in.type # T_DIR THEN MsgRoot
     ELSE IF in.type = T_DIR /\ validate_dir(im, in, i) # OK
       THEN validate_dir(im, in, i)
     ELSE chk_bmp_addr(im, in)

\* lines 197-203
chk_mark_bmp(bmp, addr) == IF ~CHK_BIT(bmp, addr) THEN MsgBmp2 ELSE OK

\* lines 206-239: the final loop (233-238) does nothing
bmp_chk(im) ==
  IF \E i \in 0..im.ninodes-1 :
       /\ im.inodes[i].type # 0
       /\ \/ \E j \in 0..NDIRECT-1 :
               Addr(im.inodes[i], j) # 0
                 /\ chk_mark_bmp(im.bmp, Addr(im.inodes[i], j)) # OK
          \/ /\ Addr(im.inodes[i], NDIRECT) # 0
             /\ \E j \in 0..NINDIRECT-1 :
                  LET a == Word(im, Addr(im.inodes[i], NDIRECT), j)
                  IN a # 0 /\ chk_mark_bmp(im.bmp, a) # OK
    THEN MsgBmp2 ELSE OK

-----------------------------------------------------------------------------
(* The duplicate-use check.                                                *)

NonZero(x) == x # 0

\* the addresses addrs_chk hands to blk_usage_chk for one inode, in order
\* (lines 296-306), zero addresses left out (line 277)
DirectAddrs(in) == SelectSeq([s \in 1..NDIRECT |-> Addr(in, s - 1)], NonZero)

IndirectAddrs(im, in) ==
  IF Addr(in, NDIRECT) = 0 THEN <<>>
  ELSE SelectSeq([k \in 1..NINDIRECT |-> Word(im, Addr(in, NDIRECT), k - 1)], NonZero)

\* what an out-of-bounds usage_counts[idx]++ can do: fault, find a word that
\* is not zero (and report a duplicate), or hit a word nothing reads
UsageUB == {"crash", "dup", "benign"}

\* lines 276-284 for one address; st is [res, used, uidx, msg]: the set of
\* indices counted once, the indices used, and how the call ended.  The
\* index is a uint: a negative difference d stands for 2^32 + d, which is
\* above every nblocks
blk_usage_chk(st, nblocks, startblk, msg, addr, ub) ==
  LET i == addr - startblk
      st1 == [st EXCEPT !.uidx = @ \cup {i}]
  IN IF i >= 0 /\ i < nblocks
       THEN IF i \in st.used
              THEN [st1 EXCEPT !.res = "exit1", !.msg = msg]
              ELSE [st1 EXCEPT !.used = @ \cup {i}]
       ELSE CASE ub = "crash" -> [st1 EXCEPT !.res = "crash"]
              [] ub = "dup" -> [st1 EXCEPT !.res = "exit1", !.msg = msg]
              [] OTHER -> st1

RECURSIVE usage_scan(_, _, _, _, _, _, _)
usage_scan(st, nblocks, startblk, msg, seq, p, ub) ==
  IF p > Len(seq) \/ st.res # "ok" THEN st
  ELSE usage_scan(blk_usage_chk(st, nblocks, startblk, msg, seq[p], ub),
                  nblocks, startblk, msg, seq, p + 1, ub)

\* lines 293-307: the body of addrs_chk's loop for inode i
addrs_chk_body(im, L, i, st, ub) ==
  IF im.inodes[i].type = 0 THEN st
  ELSE usage_scan(
         usage_scan(st, im.nblocks, L.firstblk, MsgDupDirect,
                    DirectAddrs(im.inodes[i]), 1, ub),
         im.nblocks, L.firstblk, MsgDupIndirect,
         IndirectAddrs(im, im.inodes[i]), 1, ub)

-----------------------------------------------------------------------------
(* The directory walk and the reference sweep.                             *)

Counted(de) == ~(de.inum = 0 \/ de.name = "." \/ de.name = "..")

\* lines 319-330: the inode numbers process_block counts in block addr
process_block(im, addr) ==
  IF addr = 0 THEN <<>>
  ELSE LET des == SelectSeq([j \in 1..DPB |-> Dirent(im, addr, j - 1)], Counted)
       IN [p \in 1..Len(des) |-> des[p].inum]

RECURSIVE ConcatBlocks(_, _, _)
ConcatBlocks(im, seq, p) ==
  IF p > Len(seq) THEN <<>>
  ELSE process_block(im, seq[p]) \o ConcatBlocks(im, seq, p + 1)

\* lines 333-344: the entries one call of traverse_dirs counts, in order:
\* those of the direct blocks, then those of the blocks the indirect block
\* names
dir_entries(im, in) ==
  ConcatBlocks(im, DirectAddrs(in) \o IndirectAddrs(im, in), 1)

returns_at_once_if_free(in) == in.type = 0

\* line 313: traverse_dirs returns at once on an inode that is no directory
returns_at_once(in) == in.type # T_DIR

\* frames of traverse_dirs the stack of the process holds: one more than the
\* directories of an image, so that only a walk that re-enters a directory
\* runs out
StackLimit == NINODES + 1

\* lines 348-377 in the order of lines 393-396
ref_chk_body(in, cnt) ==
  IF in.type # 0 /\ cnt = 0 THEN MsgNotFound
  ELSE IF cnt > 0 /\ in.type = 0 THEN MsgFreeRef
  ELSE IF in.type = T_FILE /\ in.nlink # cnt THEN MsgBadRef
  ELSE IF in.type = T_DIR /\ cnt > 1 THEN MsgDirTwice
  ELSE OK

-----------------------------------------------------------------------------
(* The process.                                                            *)

NoLayout == [ninodeblks |-> 0, nbitmapblks |-> 0, bitmapblk |-> 0, firstblk |-> 0]

Start(im) ==
  /\ img = im
  /\ lay = NoLayout
  /\ pc = "init_img"
  /\ idx = 0
  /\ used = {}
  /\ inmap = <<>>
  /\ stack = <<>>
  /\ uidx = {}
  /\ midx = {}
  /\ smashed = FALSE
  /\ err = <<>>
  /\ outcome = "running"

\* every image a tree or the blank image gives with up to one field
\* overwritten; every image the first tree gives with a second field
\* overwritten in the superblock, an inode or the bitmap; and every image a
\* tree gives with two ordinarily named entries overwritten
Init ==
  \/ \E t \in Trees \cup {Blank}, m \in Muts : Start(Apply(t, m))
  \/ \E m1 \in Muts, m2 \in FieldMuts :
       Start(Apply(Apply(Tree(2, 3, FALSE), m1), m2))
  \/ \E t \in Trees, m1 \in LinkMuts, m2 \in LinkMuts :
       Start(Apply(Apply(t, m1), m2))

\* fprintf(stderr, msg); exit(1)
Fail(msg) ==
  /\ err' = Append(err, msg)
  /\ outcome' = "exit1"
  /\ pc' = "done"

\* the process is killed by a fault (SIGSEGV): "segv" at an out-of-bounds
\* access or through a word one has overwritten, "overflow" when the stack
\* is exhausted
Crash(how) ==
  /\ outcome' = how
  /\ pc' = "done"
  /\ err' = err

\* the stack protector finds the frame of dir_chk overwritten (SIGABRT)
Abort ==
  /\ err' = Append(err, MsgSmash)
  /\ outcome' = "abort"
  /\ pc' = "done"

\* line 445
InitImg ==
  /\ pc = "init_img"
  /\ lay' = init_img(img)
  /\ pc' = "main"
  /\ UNCHANGED <<img, idx, used, inmap, stack, uidx, midx, smashed, err, outcome>>

\* lines 451-468: one turn of main's loop, or its end
Main ==
  /\ pc = "main"
  /\ IF idx < img.ninodes
       THEN IF main_body(img, idx) # OK
              THEN Fail(main_body(img, idx)) /\ idx' = idx
              ELSE idx' = idx + 1 /\ UNCHANGED <<pc, err, outcome>>
       ELSE pc' = "bmp_chk" /\ UNCHANGED <<idx, err, outcome>>
  /\ UNCHANGED <<img, lay, used, inmap, stack, uidx, midx, smashed>>

\* line 473
BmpChk ==
  /\ pc = "bmp_chk"
  /\ IF bmp_chk(img) # OK
       THEN Fail(bmp_chk(img)) /\ idx' = idx
       ELSE pc' = "addrs_chk" /\ idx' = 0 /\ UNCHANGED <<err, outcome>>
  /\ UNCHANGED <<img, lay, used, inmap, stack, uidx, midx, smashed>>

\* line 474: one turn of addrs_chk's loop, or its end
AddrsChk ==
  /\ pc = "addrs_chk"
  /\ IF idx < img.ninodes
       THEN \E ub \in UsageUB :
              LET st == addrs_chk_body(img, lay, idx,
                          [res |-> "ok", used |-> used, uidx |-> uidx, msg |-> OK], ub)
              IN /\ used' = st.used
                 /\ uidx' = st.uidx
                 /\ CASE st.res = "exit1" -> Fail(st.msg) /\ idx' = idx
                      [] st.res = "crash" -> Crash("segv") /\ idx' = idx
                      [] OTHER -> idx' = idx + 1 /\ UNCHANGED <<pc, err, outcome>>
       ELSE pc' = "dir_chk" /\ UNCHANGED <<idx, used, uidx, err, outcome>>
  /\ UNCHANGED <<img, lay, inmap, stack, midx, smashed>>

\* lines 381-390: the table, the two references credited up front, and the
\* call traverse_dirs(img, root, inmap), which returns at once unless the
\* root is a directory (line 313)
DirChk ==
  /\ pc = "dir_chk"
  /\ inmap' = [i \in 0..img.ninodes-1 |-> IF i \in {0, 1} THEN 1 ELSE 0]
  /\ midx' = {0, 1}
  /\ IF returns_at_once(img.inodes[1])
       THEN stack' = <<>> /\ pc' = "ref_chk"
       ELSE stack' = <<[dir |-> 1, pos |-> 1]>> /\ pc' = "traverse_dirs"
  /\ idx' = 2
  /\ UNCHANGED <<img, lay, used, uidx, smashed, err, outcome>>

\* what an out-of-bounds inmap[de->inum]++ can do: fault, overwrite a live
\* word of the stack above the table (the frame of dir_chk and what it
\* keeps of its loop), or hit a word nothing reads
InmapUB == {"crash", "corrupt", "benign"}

\* lines 324-328: the innermost call counts its next entry and calls
\* traverse_dirs on the inode it names
TraverseEntry ==
  /\ pc = "traverse_dirs"
  /\ LET top == stack[Len(stack)]
         ents == dir_entries(img, Dinode(img, lay, top.dir))
     IN /\ top.pos <= Len(ents)
        /\ LET t == ents[top.pos]
               rest == [stack EXCEPT ![Len(stack)].pos = top.pos + 1]
               call ==
                 IF returns_at_once(Dinode(img, lay, t))
                   THEN stack' = rest /\ UNCHANGED <<pc, err, outcome>>
                 ELSE IF Len(stack) >= StackLimit
                   THEN stack' = stack /\ Crash("overflow")
                 ELSE /\ stack' = Append(rest, [dir |-> t, pos |-> 1])
                      /\ UNCHANGED <<pc, err, outcome>>
           IN /\ midx' = midx \cup {t}
              /\ IF t < img.ninodes
                   THEN /\ inmap' = [inmap EXCEPT ![t] = @ + 1]
                        /\ smashed' = smashed
                        /\ call
                   ELSE /\ inmap' = inmap
                        /\ \E ub \in InmapUB :
                             /\ smashed' = (smashed \/ ub = "corrupt")
                             /\ IF ub = "crash"
                                  THEN stack' = stack /\ Crash("segv")
                                  ELSE call
  /\ UNCHANGED <<img, lay, idx, used, uidx>>

\* line 345: the innermost call has no entry left and returns
TraverseReturn ==
  /\ pc = "traverse_dirs"
  /\ LET top == stack[Len(stack)]
     IN top.pos > Len(dir_entries(img, Dinode(img, lay, top.dir)))
  /\ stack' = SubSeq(stack, 1, Len(stack) - 1)
  /\ pc' = IF Len(stack) = 1 THEN "ref_chk" ELSE pc
  /\ UNCHANGED <<img, lay, idx, used, inmap, uidx, midx, smashed, err, outcome>>

\* what one turn of dir_chk's loop can do once a live word of its frame is
\* overwritten: fault, report any of the four diagnostics, or pass
SmashedTurns == {"crash", OK, MsgNotFound, MsgFreeRef, MsgBadRef, MsgDirTwice}

\* lines 392-397: one turn of dir_chk's loop
RefChk ==
  /\ pc = "ref_chk"
  /\ idx < img.ninodes
  /\ \E r \in IF smashed THEN SmashedTurns
                ELSE {ref_chk_body(img.inodes[idx], inmap[idx])} :
       IF r = "crash" THEN Crash("segv") /\ idx' = idx
       ELSE IF r # OK THEN Fail(r) /\ idx' = idx
       ELSE idx' = idx + 1 /\ UNCHANGED <<pc, err, outcome>>
  /\ UNCHANGED <<img, lay, used, inmap, stack, uidx, midx, smashed>>

\* lines 398, 477: dir_chk returns and main exits; a build with a stack
\* protector aborts at the return when the frame was overwritten
Exit0 ==
  /\ pc = "ref_chk"
  /\ idx >= img.ninodes
  /\ \/ outcome' = "exit0" /\ pc' = "done" /\ err' = err
     \/ smashed /\ Abort
  /\ UNCHANGED <<img, lay, idx, used, inmap, stack, uidx, midx, smashed>>

Next ==
  \/ InitImg
  \/ Main
  \/ BmpChk
  \/ AddrsChk
  \/ DirChk
  \/ TraverseEntry
  \/ TraverseReturn
  \/ RefChk
  \/ Exit0

Spec == Init /\ [][Next]_vars


-----------------------------------------------------------------------------
(* The layout specification: init_img on superblocks alone.                *)

SbVals ==
  (1..MaxSb) \cup {BPB - 1, BPB, BPB + 1, 2 * BPB}
    \cup {IPB * (WrapBlocks - 1) - 1, IPB * (WrapBlocks - 1), IPB * WrapBlocks}

LayoutInit ==
  \E s \in SbVals, n \in SbVals :
    Start([size |-> s, nblocks |-> 0, ninodes |-> n,
           inodes |-> <<>>, blocks |-> <<>>, bmp |-> <<>>])

LayoutSpec == LayoutInit /\ [][InitImg]_vars

-----------------------------------------------------------------------------
(* The vocabulary of the claims, stated on the image and not by the checks *)
(* of the program.                                                         *)

InodeNums == 0..(img.ninodes - 1)
InUse(i) == img.inodes[i].type # 0
IsDir(i) == img.inodes[i].type = T_DIR
IsFile(i) == img.inodes[i].type = T_FILE

\* the slots through which an inode uses a block
Slots ==
  {<<"direct", s>> : s \in 0..NDIRECT-1} \cup {<<"pointer", 0>>}
    \cup {<<"inside", k>> : k \in 0..NINDIRECT-1}

AddrAt(i, sl) ==
  LET in == img.inodes[i]
      ptr == Addr(in, NDIRECT)
  IN CASE sl[1] = "direct" -> Addr(in, sl[2])
       [] sl[1] = "pointer" -> ptr
       [] OTHER -> IF ptr # 0 /\ ptr < img.size THEN Word(img, ptr, sl[2]) ELSE 0

\* the references to blocks: (inode, slot) pairs of inodes in use that hold
\* an address
Refs == {r \in InodeNums \X Slots : InUse(r[1]) /\ AddrAt(r[1], r[2]) # 0}

\* the blocks that hold the entries of a directory: the direct blocks, then
\* the blocks its indirect block names
BlockAt(i, p) ==
  IF p < NDIRECT THEN AddrAt(i, <<"direct", p>>)
  ELSE AddrAt(i, <<"inside", p - NDIRECT>>)

EntrySpace == (0..(NDIRECT + NINDIRECT - 1)) \X (0..DPB-1)

\* e is a non-empty entry of directory i that is named neither "." nor ".."
IsEntry(i, e) ==
  /\ BlockAt(i, e[1]) # 0
  /\ Dirent(img, BlockAt(i, e[1]), e[2]).inum # 0
  /\ Dirent(img, BlockAt(i, e[1]), e[2]).name \notin {".", ".."}

Target(i, e) == Dirent(img, BlockAt(i, e[1]), e[2]).inum

Dirs == {i \in InodeNums : IsDir(i)}

\* the entries of the directories, each with the inode it points to
Links ==
  {<<x[1], x[2], Target(x[1], x[2])>> :
     x \in {y \in Dirs \X EntrySpace : IsEntry(y[1], y[2])}}

\* the entries of the directories of D that point to inode k
EntriesTo(D, k) == {l \in Links : l[1] \in D /\ l[3] = k}

\* the number of entries of directory p that point to inode k
EdgeCount(E, p, k) == Cardinality({l \in E : l[1] = p /\ l[3] = k})

\* the directory graph: an entry of directory d points to directory t
Succ(E, d) == {t \in Dirs : \E l \in E : l[1] = d /\ l[3] = t}

RECURSIVE Closure(_, _, _)
Closure(E, S, n) ==
  IF n = 0 THEN S ELSE Closure(E, S \cup UNION {Succ(E, d) : d \in S}, n - 1)

\* the directories the root reaches
ReachableIn(E) == IF IsDir(1) THEN Closure(E, {1}, img.ninodes) ELSE {}
Reachable == ReachableIn(Links)

\* a cycle of the directory graph that the root reaches
CyclicIn(E) ==
  \E d \in ReachableIn(E) : d \in Closure(E, Succ(E, d), img.ninodes)
Cyclic == CyclicIn(Links)

\* no table was indexed out of its bounds so far
InBounds ==
  /\ uidx \subseteq 0..(img.nblocks - 1)
  /\ midx \subseteq 0..(img.ninodes - 1)

SweepMsgs == {MsgBadInode, MsgBadDirect, MsgBadIndirect, MsgRoot, MsgDir, MsgBmp}
DupMsgs == {MsgDupDirect, MsgDupIndirect}
RefMsgs == {MsgNotFound, MsgFreeRef, MsgBadRef, MsgDirTwice}

Done == pc = "done"

\* the run went through main's loop and bmp_chk
PassedSweep == Done /\ (err = <<>> \/ err[1] \notin SweepMsgs \cup {MsgBmp2})

\* the walk returned and the reference sweep gave the verdict
RefSweepRan == Done /\ midx # {} /\ outcome \in {"exit0", "exit1"}

-----------------------------------------------------------------------------
(* C1: bitmap agreement.                                                   *)

\* a reference to a block of the image whose bitmap bit is clear
ClearRefs == {r \in Refs : AddrAt(r[1], r[2]) < img.size
                           /\ ~CHK_BIT(img.bmp, AddrAt(r[1], r[2]))}

\* C1: when a run is over and some address an inode in use holds (a direct
\* slot, the indirect pointer slot, or a slot inside the indirect block) has
\* its bitmap bit clear, the run ended with exit 1 and one diagnostic, which
\* is that of an earlier check of main's loop or "address used by inode but
\* marked free in bitmap"; so no run that exits 0 has such an address.
C1_BitmapAgreement ==
  (Done /\ ClearRefs # {}) =>
    /\ outcome = "exit1"
    /\ Len(err) = 1
    /\ err[1] \in SweepMsgs

-----------------------------------------------------------------------------
(* C2: no double allocation.                                               *)

\* two distinct (inode, slot) references hold the same address
DoubleRefs == {p \in Refs \X Refs :
                 p[1] # p[2] /\ AddrAt(p[1][1], p[1][2]) = AddrAt(p[2][1], p[2][2])}

\* C2: when a run is over, went through main's loop and the bitmap check,
\* indexed no table out of its bounds, and the image has an address that two
\* (inode, slot) pairs hold (the indirect pointer slot being a slot), the run
\* ended with exit 1 and a duplicate-use diagnostic; so no accepted image has
\* an address referenced twice.
C2_NoDoubleAllocation ==
  (PassedSweep /\ InBounds /\ DoubleRefs # {}) =>
    /\ outcome = "exit1"
    /\ err[1] \in DupMsgs

-----------------------------------------------------------------------------
(* C3: the root must exist.                                                *)

\* C3: when a run is over, indexed no table out of its bounds, and inode 1 is
\* not a Directory, the run ended with exit 1 and the diagnostic "root
\* directory does not exist" or that of an earlier check of main's loop; so
\* no run exits 0 on such an image.
C3_RootMustExist ==
  (Done /\ InBounds /\ ~IsDir(1)) =>
    /\ outcome = "exit1"
    /\ err[1] \in SweepMsgs

-----------------------------------------------------------------------------
(* C6: directory well-formedness.                                          *)

\* the entries validate_dir reads: those of the direct blocks, in order
DirectEnts(i) ==
  {e \in (0..NDIRECT-1) \X (0..DPB-1) : BlockAt(i, e[1]) # 0}

Before(e, f) == e[1] < f[1] \/ (e[1] = f[1] /\ e[2] < f[2])

\* the first entry of directory i with the given name
IsFirst(i, e, name) ==
  /\ e \in DirectEnts(i)
  /\ Dirent(img, BlockAt(i, e[1]), e[2]).name = name
  /\ \A f \in DirectEnts(i) :
       Dirent(img, BlockAt(i, f[1]), f[2]).name = name => ~Before(f, e)

\* the "." entry is absent or does not point to i, or the ".." entry is
\* absent or breaks the parent rule
Malformed(i) ==
  \/ ~\E e \in DirectEnts(i) : IsFirst(i, e, ".")
  \/ \E e \in DirectEnts(i) : IsFirst(i, e, ".") /\ Target(i, e) # i
  \/ ~\E e \in DirectEnts(i) : IsFirst(i, e, "..")
  \/ \E e \in DirectEnts(i) :
       IsFirst(i, e, "..") /\ (IF i = 1 THEN Target(i, e) # 1 ELSE Target(i, e) = i)

\* the checks of main's loop before that of the directory's entries pass
EarlierPass(i) ==
  /\ \A j \in 0..(i-1) : main_body(img, j) = OK
  /\ validate_type(img.inodes[i]) = OK
  /\ check_direct(img, img.inodes[i]) = OK
  /\ check_indirect(img, img.inodes[i]) = OK
  /\ IsDir(1)

\* C6, for the directories other than the root: when a run is over and
\* Directory i is malformed ("." absent or not pointing to i, ".." absent or
\* pointing to i) while every earlier check passes, the run ended with exit 1
\* and the one diagnostic "directory not properly formatted", which is not
\* the diagnostic of a missing root.
C6_DirectoryWellFormed ==
  Done => \A i \in Dirs \ {0, 1} :
    (Malformed(i) /\ EarlierPass(i)) => (outcome = "exit1" /\ err = <<MsgDir>>)

-----------------------------------------------------------------------------
(* C10: the indices into the scratch tables.                               *)

\* C10: every index the duplicate-use check uses into its table lies in
\* [0, nblocks), and every index the walk uses into the reference-count
\* table lies in [0, ninodes).
C10_IndexSafety == InBounds

-----------------------------------------------------------------------------
(* C9: the layout.                                                         *)

\* k is the least number of blocks of d items that hold n items
IsCeil(k, n, d) == k * d >= n /\ (k - 1) * d < n

LayoutDone == pc # "init_img"

\* C9 as the specification states it: the inode-table block count is
\* ceil(ninodes / IPB), the bitmap block count is ceil(size / BPB), firstblk
\* is 2 plus both, and the bitmap starts that many blocks after block 2.
C9_LayoutCeil ==
  LayoutDone =>
    /\ IsCeil(lay.ninodeblks, img.ninodes, IPB)
    /\ IsCeil(lay.nbitmapblks, img.size, BPB)
    /\ lay.firstblk = 2 + lay.ninodeblks + lay.nbitmapblks
    /\ lay.bitmapblk = 2 + lay.ninodeblks

\* C9 as the code computes it: the inode-table block count is
\* floor(ninodes / IPB) + 1 and the bitmap block count floor(size / BPB) + 1,
\* which is the ceiling when the count is not a multiple of the divisor and
\* one block more than the ceiling when it is; firstblk is 2
\* plus both; the bitmap starts that many inode-table blocks after block 2
\* as long as the byte offset ninodeblks * 512 fits 32 bits.
C9_LayoutFloorPlusOne ==
  LayoutDone =>
    /\ (lay.ninodeblks - 1) * IPB <= img.ninodes
    /\ img.ninodes < lay.ninodeblks * IPB
    /\ (lay.nbitmapblks - 1) * BPB <= img.size
    /\ img.size < lay.nbitmapblks * BPB
    /\ IsCeil(lay.ninodeblks, img.ninodes, IPB) <=> (img.ninodes % IPB # 0)
    /\ IsCeil(lay.nbitmapblks, img.size, BPB) <=> (img.size % BPB # 0)
    /\ (img.ninodes % IPB = 0) => IsCeil(lay.ninodeblks - 1, img.ninodes, IPB)
    /\ (img.size % BPB = 0) => IsCeil(lay.nbitmapblks - 1, img.size, BPB)
    /\ lay.firstblk = 2 + lay.ninodeblks + lay.nbitmapblks
    /\ (lay.ninodeblks < WrapBlocks) => lay.bitmapblk = 2 + lay.ninodeblks

\* the layout of a superblock whose two counts are positive exact multiples
C9_Witness ==
  /\ LayoutDone
  /\ img.ninodes > 0 /\ img.ninodes % IPB = 0
  /\ img.size > 0 /\ img.size % BPB = 0
  /\ lay.ninodeblks = (img.ninodes \div IPB) + 1
  /\ lay.nbitmapblks = (img.size \div BPB) + 1

-----------------------------------------------------------------------------
(* The counts of the walk, stated on the directory graph.                  *)

RECURSIVE Visits(_, _, _)
RECURSIVE SumVisits(_, _, _, _)

\* the number of times the walk enters directory d when the graph has no
\* cycle: once for the root, and for another directory once for each entry
\* to it of each visit of the directory that holds the entry
Visits(E, d, fuel) ==
  IF d = 1 THEN (IF IsDir(1) THEN 1 ELSE 0)
  ELSE IF fuel = 0 \/ ~IsDir(d) THEN 0
  ELSE SumVisits(E, Dirs, d, fuel - 1)

\* the number of entries to k the walk counts in the directories of S
SumVisits(E, S, k, fuel) ==
  IF S = {} THEN 0
  ELSE LET p == CHOOSE x \in S : TRUE
           c == EdgeCount(E, p, k)
       IN (IF c = 0 THEN 0 ELSE c * Visits(E, p, fuel))
            + SumVisits(E, S \ {p}, k, fuel)

\* the reference counts after the walk: inodes 0 and 1 are credited one
\* reference up front
WalkCount ==
  LET E == Links
  IN [k \in InodeNums |->
        (IF k \in {0, 1} THEN 1 ELSE 0) + SumVisits(E, Dirs, k, img.ninodes)]

\* the violation the reference sweep finds in inode k, the count being cnt
RefKind(k, cnt) ==
  IF InUse(k) /\ cnt = 0 THEN MsgNotFound
  ELSE IF ~InUse(k) /\ cnt > 0 THEN MsgFreeRef
  ELSE IF IsFile(k) /\ img.inodes[k].nlink # cnt THEN MsgBadRef
  ELSE IF IsDir(k) /\ cnt > 1 THEN MsgDirTwice
  ELSE OK

Swept == InodeNums \ {0, 1}

Least(S) == CHOOSE x \in S : \A y \in S : x <= y

-----------------------------------------------------------------------------
(* C5: link counts.                                                        *)

Files == {k \in Swept : IsFile(k)}

\* C5, with the entries counted across the Directory inodes numbered 1 and
\* up (the directories the walk from inode 1 can enter): in an image on
\* which the run exits 0, each File inode numbered 2..ninodes-1 has nlink
\* equal to the number of entries, named neither "." nor "..", that point
\* to it; and when the walk has returned and the count of a File differs
\* from its nlink while no check of a lower-numbered inode and no earlier
\* check of this one fails, the run ended with exit 1 and "bad reference
\* count for file".
C5_LinkCountExact ==
  /\ (Done /\ outcome = "exit0") =>
       \A k \in Files :
         img.inodes[k].nlink = Cardinality(EntriesTo(Dirs \ {0}, k))
  /\ RefSweepRan =>
       \A k \in Files :
         ( /\ inmap[k] # img.inodes[k].nlink
           /\ inmap[k] # 0
           /\ \A j \in Swept : j < k => RefKind(j, inmap[j]) = OK )
         => (outcome = "exit1" /\ err = <<MsgBadRef>>)

-----------------------------------------------------------------------------
(* C4: hard-linked directories.                                            *)

\* the Directory inodes numbered 2 and up that two entries of the
\* directories the root reaches point to
HardLinked ==
  {k \in Swept : IsDir(k) /\ Cardinality(EntriesTo(Reachable, k)) >= 2}

\* every inode in use is pointed to and every inode pointed to is in use
RefsMatch ==
  \A k \in Swept : InUse(k) <=> EntriesTo(Reachable, k) # {}

\* C4, with any diagnostic of the reference sweep allowed in place of the
\* one the claim names: on an image that passes the inode, bitmap and
\* duplicate-use checks, whose File inodes have nlink equal to the number of
\* entries that point to them, and with a Directory numbered 2 or more that
\* two entries of the directories the root reaches point to, a run whose
\* walk returned ends with exit 1 and a diagnostic of the reference sweep.
C4_HardLinkRejected ==
  ( /\ RefSweepRan
    /\ HardLinked # {}
    /\ RefsMatch
    /\ \A k \in Files : img.inodes[k].nlink = Cardinality(EntriesTo(Dirs, k)) )
  => (outcome = "exit1" /\ Len(err) = 1 /\ err[1] \in RefMsgs)

-----------------------------------------------------------------------------
(* C8: the walk ends unless the directories form a cycle.                  *)

\* every image a tree or the blank image gives with up to one field
\* overwritten
WalkInit == \E t \in Trees \cup {Blank}, m \in Muts : Start(Apply(t, m))

\* a process that can take a step takes one
WalkSpec == WalkInit /\ [][Next]_vars /\ WF_vars(Next)

Walking == pc = "traverse_dirs"

\* C8: the walk started at inode 1 ends on every image whose graph of
\* entries (named neither "." nor "..") from Directory to Directory inodes
\* the root reaches has no cycle: it never runs out of stack, it holds no
\* more frames than directories, and it returns to dir_chk unless an
\* out-of-bounds count kills the process; and on an image with such a cycle
\* the walk never returns and the run reaches no verdict: it ends only
\* when the stack is exhausted or on an out-of-bounds count.
C8_WalkTermination ==
  /\ []((Done /\ outcome = "overflow") => Cyclic)
  /\ []((Walking /\ ~Cyclic) => Len(stack) <= Cardinality(Reachable))
  /\ []((midx # {} /\ Cyclic) =>
          /\ pc \in {"traverse_dirs", "done"}
          /\ outcome \notin {"exit0", "exit1"}
          /\ Done => (outcome = "overflow" \/ (outcome = "segv" /\ ~InBounds)))
  /\ ((Walking /\ ~Cyclic) ~> (pc = "ref_chk" \/ (outcome = "segv" /\ ~InBounds)))

\* the walk of an image with a cycle has exhausted the stack
C8_Witness ==
  /\ Done
  /\ Cyclic
  /\ outcome = "overflow"
  /\ Len(stack) = StackLimit

-----------------------------------------------------------------------------
(* C7: the first violation is the one reported.                            *)

\* the inodes that fail a check of main's loop, as the code has them
SweepBad == {i \in InodeNums : main_body(img, i) # OK}

\* the inodes whose count fails a check of the reference sweep
RefBad(W) == {j \in Swept : RefKind(j, W[j]) # OK}

\* the violations of an image, counted by check
Violations(W) ==
  Cardinality(SweepBad) + (IF ClearRefs # {} THEN 1 ELSE 0)
    + (IF DoubleRefs # {} THEN 1 ELSE 0) + Cardinality(RefBad(W))

\* C7: on an image with several violations (and no cycle of directories)
\* the run ends with exit 1 and exactly one diagnostic, that of the first
\* violation in the order: the checks of main's loop by inode number, then
\* bitmap membership, then duplicate use, then the reference sweep by inode
\* number, within one inode not found, then free but referenced, then link
\* count, then directory counted twice.  The checks of main's loop are taken
\* as the code has them, and either bitmap diagnostic and either
\* duplicate-use diagnostic is accepted.
C7_FirstError ==
  (Done /\ ~Cyclic) =>
    LET W == WalkCount
    IN Violations(W) >= 2 =>
         /\ outcome = "exit1"
         /\ Len(err) = 1
         /\ IF SweepBad # {} THEN err[1] = main_body(img, Least(SweepBad))
            ELSE IF ClearRefs # {} THEN err[1] \in {MsgBmp, MsgBmp2}
            ELSE IF DoubleRefs # {} THEN err[1] \in DupMsgs
            ELSE err[1] = RefKind(Least(RefBad(W)), W[Least(RefBad(W))])

=============================================================================
